---- MODULE Spec2Model ----
(***************************************************************************)
(* AIRAC cycle calculator (src/main.py).                                   *)
(*                                                                         *)
(* A date is modelled by its proleptic Gregorian ordinal, the integer that *)
(* datetime.date.toordinal() returns (0001-01-01 is 1, 9999-12-31 is       *)
(* 3652059).  An identifier is a sequence of characters; a character is a  *)
(* one-element token such as "7", "a" or, for a character outside ASCII,   *)
(* its code point written "U+0661".                                        *)
(*                                                                         *)
(* A call either returns a cycle or raises; the result of an operator that *)
(* models a method is the record [error, cycle], where error is "none"     *)
(* when the call returned.                                                 *)
(***************************************************************************)
EXTENDS Integers, Sequences, FiniteSets

\* ------------------------------------------------------------------------
\* Bounds of the model
\* ------------------------------------------------------------------------

\* whole calendar years before the epoch year from which query dates are drawn
YearsBefore == 58

\* whole calendar years after the epoch year from which query dates are drawn
YearsAfter == 45

\* days at each end of the host calendar's date domain that are query dates
EdgeDays == 40

\* longest identifier drawn
MaxIdLen == 5

\* longest chain of next / previous calls that follows the first call
MaxCalls == 3

\* ------------------------------------------------------------------------
\* The host calendar: datetime.date
\* ------------------------------------------------------------------------

MINYEAR == 1

MAXYEAR == 9999

\* calendar.isleap / datetime._is_leap
IsLeap(year) ==
    (year % 4 = 0) /\ ((year % 100 # 0) \/ (year % 400 = 0))

\* datetime._days_before_year: days before January 1 of year
DaysBeforeYear(year) ==
    LET y == year - 1
    IN  y * 365 + (y \div 4) - (y \div 100) + (y \div 400)

\* datetime._days_before_month: days of year before the first of month
DaysBeforeMonth(year, month) ==
    LET cumulative == <<0, 31, 59, 90, 120, 151, 181, 212, 243, 273, 304, 334>>
    IN  cumulative[month] + (IF month > 2 /\ IsLeap(year) THEN 1 ELSE 0)

\* date(year, month, day).toordinal()
YmdToOrd(year, month, day) ==
    DaysBeforeYear(year) + DaysBeforeMonth(year, month) + day

\* date.min.toordinal() and date.max.toordinal()
MinOrdinal == YmdToOrd(MINYEAR, 1, 1)

MaxOrdinal == YmdToOrd(MAXYEAR, 12, 31)

\* a value of type date exists for exactly these ordinals
IsDate(n) == (n >= MinOrdinal) /\ (n <= MaxOrdinal)

\* date.year of the date with ordinal n (datetime._ord2ymd)
YearOf(n) ==
    LET n0   == n - 1
        n400 == n0 \div 146097
        r400 == n0 % 146097
        n100 == r400 \div 36524
        r100 == r400 % 36524
        n4   == r100 \div 1461
        r4   == r100 % 1461
        n1   == r4 \div 365
        year == n400 * 400 + 1 + n100 * 100 + n4 * 4 + n1
    IN  IF n1 = 4 \/ n100 = 4 THEN year - 1 ELSE year

\* ------------------------------------------------------------------------
\* AIRACCycle and the constants of AIRACCalculator
\* ------------------------------------------------------------------------

EPOCH == YmdToOrd(2020, 1, 2)

CYCLE_DAYS == 28

AIRACCycle(identifier, year, ordinal, effective_date, expiration_date) ==
    [identifier      |-> identifier,
     year            |-> year,
     ordinal         |-> ordinal,
     effective_date  |-> effective_date,
     expiration_date |-> expiration_date]

\* the absence of a cycle (no date has ordinal 0, no year is 0)
NoCycle == AIRACCycle(<<>>, 0, 0, 0, 0)

Returned(cycle) == [error |-> "none", cycle |-> cycle]

Raised(error) == [error |-> error, cycle |-> NoCycle]

\* ------------------------------------------------------------------------
\* AIRACCalculator.from_date
\* ------------------------------------------------------------------------

days_since_epoch(query_date) == query_date - EPOCH

\* mutant of cycles_since_epoch: a division that truncates towards zero
cycles_since_epoch_truncating(query_date) ==
    IF days_since_epoch(query_date) < 0
    THEN -((-days_since_epoch(query_date)) \div CYCLE_DAYS)
    ELSE days_since_epoch(query_date) \div CYCLE_DAYS

\* Python's // rounds towards minus infinity, as \div does
cycles_since_epoch(query_date) == days_since_epoch(query_date) \div CYCLE_DAYS

\* the ordinal that EPOCH + timedelta(...) evaluates to, when it is a date
effective_date_of(query_date) == EPOCH + cycles_since_epoch(query_date) * CYCLE_DAYS

\* mutant of expiration_date_of: the first day of the next cycle
expiration_date_of_next_start(effective_date) == effective_date + CYCLE_DAYS

expiration_date_of(effective_date) == effective_date + (CYCLE_DAYS - 1)

\* Python's % has the sign of the divisor, as % does
first_cycle_of_year_offset(year) == (YmdToOrd(year, 1, 1) - EPOCH) % CYCLE_DAYS

\* mutant of first_cycle_start: the offset added instead of its complement
first_cycle_start_offset_added(year) ==
    IF first_cycle_of_year_offset(year) > 0
    THEN YmdToOrd(year, 1, 1) + first_cycle_of_year_offset(year)
    ELSE YmdToOrd(year, 1, 1)

\* mutant of first_cycle_start: no case for a year that starts on a boundary
first_cycle_start_always_later(year) ==
    YmdToOrd(year, 1, 1) + (CYCLE_DAYS - first_cycle_of_year_offset(year))

first_cycle_start(year) ==
    IF first_cycle_of_year_offset(year) > 0
    THEN YmdToOrd(year, 1, 1) + (CYCLE_DAYS - first_cycle_of_year_offset(year))
    ELSE YmdToOrd(year, 1, 1)

\* the test that sends a cycle to the previous year
belongs_to_previous_year(effective_date) ==
    effective_date < first_cycle_start(YearOf(effective_date))

year_of_cycle(effective_date) ==
    IF belongs_to_previous_year(effective_date)
    THEN YearOf(effective_date) - 1
    ELSE YearOf(effective_date)

\* mutant of ordinal_of: counted from 0
ordinal_of_zero_based(effective_date, cycle_start) ==
    (effective_date - cycle_start) \div CYCLE_DAYS

ordinal_of(effective_date, cycle_start) ==
    ((effective_date - cycle_start) \div CYCLE_DAYS) + 1

\* the decimal digits of n >= 0
RECURSIVE Decimal(_)
Decimal(n) ==
    LET digit == <<"0", "1", "2", "3", "4", "5", "6", "7", "8", "9">>
    IN  IF n < 10 THEN <<digit[n + 1]>>
        ELSE Decimal(n \div 10) \o <<digit[(n % 10) + 1]>>

\* f"{n:02d}" for n >= 0: zero padded to a width of at least 2
Format02d(n) == IF n < 10 THEN <<"0">> \o Decimal(n) ELSE Decimal(n)

format_identifier(year, ordinal) == Format02d(year % 100) \o Format02d(ordinal)

from_date(query_date) ==
    LET effective_date  == effective_date_of(query_date)
        expiration_date == expiration_date_of(effective_date)
        year            == year_of_cycle(effective_date)
        ordinal         == ordinal_of(effective_date, first_cycle_start(year))
    IN  IF ~IsDate(effective_date) THEN Raised("OverflowError")
        ELSE IF ~IsDate(expiration_date) THEN Raised("OverflowError")
        ELSE IF ~IsDate(first_cycle_start(YearOf(effective_date)))
             THEN Raised("OverflowError")
        ELSE IF year < MINYEAR THEN Raised("ValueError")
        ELSE IF ~IsDate(first_cycle_start(year)) THEN Raised("OverflowError")
        ELSE Returned(AIRACCycle(format_identifier(year, ordinal), year, ordinal,
                                 effective_date, expiration_date))

\* ------------------------------------------------------------------------
\* Characters and str methods used by from_identifier
\* ------------------------------------------------------------------------

ASCIIDigits == {"0", "1", "2", "3", "4", "5", "6", "7", "8", "9"}

\* characters outside ASCII of Unicode category Nd (decimal digit):
\* ARABIC-INDIC DIGIT ZERO, ONE and TWO
OtherDecimals == {"U+0660", "U+0661", "U+0662"}

\* characters that are digits but not decimal digits: SUPERSCRIPT TWO
NonDecimalDigits == {"U+00B2"}

\* str.isdecimal() of one character: what int() accepts as a digit
IsDecimalChar(c) == c \in (ASCIIDigits \cup OtherDecimals)

\* str.isdigit() of one character
IsDigitChar(c) == c \in (ASCIIDigits \cup OtherDecimals \cup NonDecimalDigits)

\* the digit value of a decimal character
DigitValue(c) ==
    CASE c \in {"0", "U+0660"} -> 0
      [] c \in {"1", "U+0661"} -> 1
      [] c \in {"2", "U+0662"} -> 2
      [] c = "3" -> 3
      [] c = "4" -> 4
      [] c = "5" -> 5
      [] c = "6" -> 6
      [] c = "7" -> 7
      [] c = "8" -> 8
      [] c = "9" -> 9

\* str.isdigit(): no character that is not a digit, and at least one character
isdigit(s) == (Len(s) > 0) /\ (\A i \in 1..Len(s) : IsDigitChar(s[i]))

\* int(s) returns for a string of digits exactly when each is a decimal digit
int_accepts(s) == (Len(s) > 0) /\ (\A i \in 1..Len(s) : IsDecimalChar(s[i]))

\* int(s) for a string of decimal digits
RECURSIVE int(_)
int(s) ==
    IF Len(s) = 0 THEN 0
    ELSE int(SubSeq(s, 1, Len(s) - 1)) * 10 + DigitValue(s[Len(s)])

\* ------------------------------------------------------------------------
\* AIRACCalculator.from_identifier
\* ------------------------------------------------------------------------

\* identifier[:2] and identifier[2:] of a string of length 4
year_part_of(identifier) == SubSeq(identifier, 1, 2)

ordinal_part_of(identifier) == SubSeq(identifier, 3, Len(identifier))

\* mutant of full_year: the window moved to 1970..2069
full_year_window_1970(year_part) ==
    IF year_part >= 70 THEN 1900 + year_part ELSE 2000 + year_part

full_year(year_part) ==
    IF year_part >= 64 THEN 1900 + year_part ELSE 2000 + year_part

ordinal_in_range(ordinal) == ~(ordinal < 1 \/ ordinal > 14)

prev_year_end(year) == YmdToOrd(year - 1, 12, 31)

cycles_to_add(ordinal) == ordinal

target_effective(last_cycle_prev_year, ordinal) ==
    last_cycle_prev_year.effective_date + cycles_to_add(ordinal) * CYCLE_DAYS

\* mutant of matches_request: the recomputed cycle is not compared
matches_request_unchecked(result, year, ordinal) == TRUE

\* the check of the recomputed cycle against the request
matches_request(result, year, ordinal) ==
    ~(result.year # year \/ result.ordinal # ordinal)

from_identifier(identifier) ==
    IF Len(identifier) # 4 \/ ~isdigit(identifier) THEN Raised("ValueError")
    ELSE IF ~int_accepts(year_part_of(identifier)) THEN Raised("ValueError")
    ELSE IF ~int_accepts(ordinal_part_of(identifier)) THEN Raised("ValueError")
    ELSE
      LET year    == full_year(int(year_part_of(identifier)))
          ordinal == int(ordinal_part_of(identifier))
      IN  IF ~ordinal_in_range(ordinal) THEN Raised("ValueError")
          ELSE
            LET last_cycle_prev_year == from_date(prev_year_end(year))
            IN  IF last_cycle_prev_year.error # "none" THEN last_cycle_prev_year
                ELSE
                  LET target == target_effective(last_cycle_prev_year.cycle, ordinal)
                      result == from_date(target)
                  IN  IF ~IsDate(target) THEN Raised("OverflowError")
                      ELSE IF result.error # "none" THEN result
                      ELSE IF ~matches_request(result.cycle, year, ordinal)
                           THEN Raised("ValueError")
                      ELSE result

\* ------------------------------------------------------------------------
\* AIRACCalculator.next and AIRACCalculator.previous
\* ------------------------------------------------------------------------

next_date(cycle) == cycle.effective_date + CYCLE_DAYS

next(cycle) ==
    IF ~IsDate(next_date(cycle)) THEN Raised("OverflowError")
    ELSE from_date(next_date(cycle))

\* mutant of prev_date: the first day of the cycle itself
prev_date_same_cycle(cycle) == cycle.effective_date

prev_date(cycle) == cycle.effective_date - 1

previous(cycle) ==
    IF ~IsDate(prev_date(cycle)) THEN Raised("OverflowError")
    ELSE from_date(prev_date(cycle))

\* ------------------------------------------------------------------------
\* Inputs
\* ------------------------------------------------------------------------

EpochYear == YearOf(EPOCH)

\* every day of the years around the epoch, and the days at both ends of the
\* date domain
QueryDates ==
    (YmdToOrd(EpochYear - YearsBefore, 1, 1) .. YmdToOrd(EpochYear + YearsAfter, 12, 31))
    \cup (MinOrdinal .. (MinOrdinal + EdgeDays - 1))
    \cup ((MaxOrdinal - EdgeDays + 1) .. MaxOrdinal)

\* characters of the identifiers that are not all ASCII digits: a letter, a
\* sign, a space, a decimal digit outside ASCII and a digit that is not decimal
MixedAlphabet == {"0", "1", "a", "-", " ", "U+0661", "U+00B2"}

Strings(alphabet, maxlen) == UNION {[1..n -> alphabet] : n \in 0..maxlen}

\* every string of 4 ASCII digits, and every string of up to MaxIdLen
\* characters of MixedAlphabet
Identifiers ==
    [1..4 -> ASCIIDigits] \cup Strings(MixedAlphabet, MaxIdLen)

\* ------------------------------------------------------------------------
\* The caller: one first call on the input drawn, then a chain of next and
\* previous calls on the cycle returned last
\* ------------------------------------------------------------------------

VARIABLES
    pc,          \* "ready" before the first call, then "returned" or "raised"
    given,       \* "date" or "identifier": the input drawn
    query_date,  \* the argument of the latest call of from_date
    identifier,  \* the argument of the latest call of from_identifier
    op,          \* the method called last
    arg,         \* the cycle the last call was made on, NoCycle for a first call
    cycle,       \* the cycle the last call returned, NoCycle when it raised
    error,       \* the exception the last call raised, "none" when it returned
    trail        \* the calls that returned, oldest first: [op, cycle]

vars == <<pc, given, query_date, identifier, op, arg, cycle, error, trail>>

NoDate == 0

Init ==
    /\ pc = "ready"
    /\ op = "none"
    /\ arg = NoCycle
    /\ cycle = NoCycle
    /\ error = "none"
    /\ trail = <<>>
    /\ \/ given = "date" /\ query_date \in QueryDates /\ identifier = <<>>
       \/ given = "identifier" /\ query_date = NoDate /\ identifier \in Identifiers

\* the caller's state after a call of method name on the cycle on, with outcome r
Outcome(name, on, r) ==
    /\ pc' = IF r.error = "none" THEN "returned" ELSE "raised"
    /\ op' = name
    /\ arg' = on
    /\ cycle' = r.cycle
    /\ error' = r.error
    /\ trail' = IF r.error = "none"
                THEN Append(trail, [op |-> name, cycle |-> r.cycle])
                ELSE trail

\* from_date(query_date) on the date drawn
CallFromDate ==
    /\ pc = "ready"
    /\ given = "date"
    /\ Outcome("from_date", NoCycle, from_date(query_date))
    /\ UNCHANGED <<given, query_date, identifier>>

\* from_identifier(identifier) on the identifier drawn
CallFromIdentifier ==
    /\ pc = "ready"
    /\ given = "identifier"
    /\ Outcome("from_identifier", NoCycle, from_identifier(identifier))
    /\ UNCHANGED <<given, query_date, identifier>>

\* from_identifier(cycle.identifier) on a cycle that from_date, next or
\* previous returned
CallFromIdentifierOfCycle ==
    /\ pc = "returned"
    /\ op # "from_identifier"
    /\ Len(trail) <= MaxCalls
    /\ identifier' = cycle.identifier
    /\ Outcome("from_identifier", cycle, from_identifier(cycle.identifier))
    /\ UNCHANGED <<given, query_date>>

\* next(cycle)
CallNext ==
    /\ pc = "returned"
    /\ Len(trail) <= MaxCalls
    /\ Outcome("next", cycle, next(cycle))
    /\ query_date' = IF IsDate(next_date(cycle)) THEN next_date(cycle) ELSE query_date
    /\ UNCHANGED <<given, identifier>>

\* previous(cycle)
CallPrevious ==
    /\ pc = "returned"
    /\ Len(trail) <= MaxCalls
    /\ Outcome("previous", cycle, previous(cycle))
    /\ query_date' = IF IsDate(prev_date(cycle)) THEN prev_date(cycle) ELSE query_date
    /\ UNCHANGED <<given, identifier>>

Next ==
    \/ CallFromDate
    \/ CallFromIdentifier
    \/ CallFromIdentifierOfCycle
    \/ CallNext
    \/ CallPrevious

Spec == Init /\ [][Next]_vars

TypeOK ==
    /\ pc \in {"ready", "returned", "raised"}
    /\ (pc = "returned") <=> (cycle # NoCycle)
    /\ (pc = "raised") <=> (error # "none")

\* ------------------------------------------------------------------------
\* Properties
\* ------------------------------------------------------------------------

\* the last call was a call of from_date that returned: the first call, or the
\* one that next or previous made on query_date
FromDateReturned == (pc = "returned") /\ (op \in {"from_date", "next", "previous"})

\* C1: for every date d on which from_date returns, before the epoch or
\* after it, the cycle returned is the one that contains d: effective_date <= d
\* <= expiration_date, expiration_date is effective_date + 27 days, and
\* effective_date - EPOCH is a multiple of 28 days, negative when d is before
\* the epoch.  (That from_date returns on every date is C3.)
C1_CycleContainsDate ==
    FromDateReturned =>
        /\ cycle.effective_date <= query_date
        /\ query_date <= cycle.expiration_date
        /\ cycle.expiration_date = cycle.effective_date + 27
        /\ (cycle.effective_date - EPOCH) % 28 = 0
        /\ (query_date < EPOCH) => (cycle.effective_date - EPOCH < 0)

\* C1 witness: from_date returned on a date before the epoch that is not the
\* first day of its cycle
C1_Witness ==
    /\ op = "from_date"
    /\ pc = "returned"
    /\ query_date < EPOCH
    /\ query_date > cycle.effective_date

\* the calendar year of a cycle produced by from_date is one from_identifier
\* resolves to itself
InIdentifierWindow(c) == (c.year >= 1964) /\ (c.year <= 2063)

\* the last call was from_identifier(c.identifier) on a cycle c = arg
RoundTrip == (op = "from_identifier") /\ (arg # NoCycle)

\* C2 as stated: for every date d, with c = from_date(d),
\* from_identifier(c.identifier) returns a cycle whose effective_date is
\* c.effective_date
C2_RoundTripEveryDate ==
    RoundTrip =>
        /\ pc = "returned"
        /\ cycle.effective_date = arg.effective_date

\* C2 amended: for every date d whose cycle c = from_date(d) has its year in
\* 1964..2063, from_identifier(c.identifier) returns a cycle whose
\* effective_date is c.effective_date
C2_RoundTripInWindow ==
    (RoundTrip /\ InIdentifierWindow(arg)) =>
        /\ pc = "returned"
        /\ cycle.effective_date = arg.effective_date

\* C2 witness: the round trip returned on the first cycle of 1964
C2_Witness ==
    /\ RoundTrip
    /\ pc = "returned"
    /\ arg.year = 1964
    /\ arg.ordinal = 1
    /\ cycle = arg

\* C3: from_date returns a cycle and raises no error on every date of the
\* host calendar's date domain
C3_FromDateTotal == (op = "from_date") => (pc = "returned")

\* the identifier is exactly 4 ASCII digits
FourAsciiDigits(s) == (Len(s) = 4) /\ (\A i \in 1..Len(s) : s[i] \in ASCIIDigits)

\* the last call was from_identifier on the identifier drawn
FirstFromIdentifier == (op = "from_identifier") /\ (arg = NoCycle)

\* C4: from_identifier fails with the format error and returns no cycle on
\* every string that is not exactly 4 ASCII digits
C4_RejectsAllButFourAsciiDigits ==
    (FirstFromIdentifier /\ ~FourAsciiDigits(identifier)) =>
        /\ pc = "raised"
        /\ error = "ValueError"
        /\ cycle = NoCycle

\* the value of an ASCII digit
AsciiValue(c) ==
    CHOOSE n \in 0..9 : <<"0", "1", "2", "3", "4", "5", "6", "7", "8", "9">>[n + 1] = c

\* YY and CC of an identifier of 4 ASCII digits
YY(s) == 10 * AsciiValue(s[1]) + AsciiValue(s[2])

CC(s) == 10 * AsciiValue(s[3]) + AsciiValue(s[4])

\* the year YY stands for
CenturyOf(yy) == IF yy >= 64 THEN 1900 + yy ELSE 2000 + yy

\* the number of cycles whose effective_date falls in year
CyclesStartingIn(year) ==
    Cardinality({d \in YmdToOrd(year, 1, 1) .. YmdToOrd(year, 12, 31) :
                     (d - EPOCH) % 28 = 0})

\* C5: on an identifier YYCC of 4 ASCII digits, from_identifier returns a
\* cycle exactly when CC is between 1 and the number of cycles whose
\* effective_date falls in the year YY stands for (1900+YY when YY >= 64, else
\* 2000+YY); the cycle returned has that year, ordinal CC and the identifier
\* given; otherwise it raises and returns no cycle
C5_ReturnsExactlyExistingCycles ==
    (FirstFromIdentifier /\ FourAsciiDigits(identifier)) =>
        IF (CC(identifier) >= 1) /\ (CC(identifier) <= CyclesStartingIn(CenturyOf(YY(identifier))))
        THEN /\ pc = "returned"
             /\ cycle.year = CenturyOf(YY(identifier))
             /\ cycle.ordinal = CC(identifier)
             /\ cycle.identifier = identifier
        ELSE /\ pc = "raised"
             /\ error # "none"
             /\ cycle = NoCycle

\* C5 witness: "2114" was rejected, 2021 being a year of 13 cycles
C5_Witness ==
    /\ FirstFromIdentifier
    /\ identifier = <<"2", "1", "1", "4">>
    /\ CyclesStartingIn(2021) = 13
    /\ pc = "raised"

\* C6: next and previous are mutual inverses: previous(next(c)) = c and
\* next(previous(c)) = c in all five fields, for every cycle c on which the
\* inner call returns
C6_NextPreviousInverse ==
    \A i \in 1..(Len(trail) - 2) :
        /\ (trail[i + 1].op = "next" /\ trail[i + 2].op = "previous")
               => (trail[i + 2].cycle = trail[i].cycle)
        /\ (trail[i + 1].op = "previous" /\ trail[i + 2].op = "next")
               => (trail[i + 2].cycle = trail[i].cycle)

\* C6 witness: previous(next(c)) was computed for the last cycle c of a year
C6_Witness ==
    /\ Len(trail) >= 3
    /\ trail[1].op = "from_date"
    /\ trail[2].op = "next"
    /\ trail[3].op = "previous"
    /\ trail[2].cycle.year = trail[1].cycle.year + 1

\* C7: for every date d, with c = from_date(d), the effective_date of next(c)
\* is the day after c.expiration_date
C7_Contiguous ==
    (op = "next" /\ pc = "returned") =>
        (cycle.effective_date = arg.expiration_date + 1)

\* C7 witness: next returned on the cycle of a date before the epoch
C7_Witness ==
    /\ op = "next"
    /\ pc = "returned"
    /\ Len(trail) = 2
    /\ trail[1].op = "from_date"
    /\ arg.expiration_date < EPOCH

\* C8: the ordinal of every cycle from_date returns is in 1..14; the last
\* cycle of a year has ordinal 13 or 14, the number of cycles that start in
\* the year; the cycle of 2020-12-31 is the 14th of 2020, with identifier
\* "2014"
C8_OrdinalRange ==
    /\ FromDateReturned => (cycle.ordinal \in 1..14)
    /\ (op = "next" /\ pc = "returned" /\ cycle.year # arg.year)
           => /\ arg.ordinal \in {13, 14}
              /\ arg.ordinal = CyclesStartingIn(arg.year)
    /\ (FromDateReturned /\ query_date = YmdToOrd(2020, 12, 31))
           => /\ cycle.identifier = <<"2", "0", "1", "4">>
              /\ cycle.year = 2020
              /\ cycle.ordinal = 14

\* C8 witness: from_date returned on 2020-12-31
C8_Witness ==
    /\ op = "from_date"
    /\ pc = "returned"
    /\ query_date = YmdToOrd(2020, 12, 31)

\* C9: each next call moves (year, ordinal) to (year, ordinal + 1) or to
\* (year + 1, 1), and the cycle of ordinal 1 is the first whose effective_date
\* is on or after January 1 of its year
C9_OrdinalsConsecutive ==
    /\ (op = "next" /\ pc = "returned") =>
           \/ (cycle.year = arg.year) /\ (cycle.ordinal = arg.ordinal + 1)
           \/ (cycle.year = arg.year + 1) /\ (cycle.ordinal = 1)
    /\ FromDateReturned =>
           ((cycle.ordinal = 1) <=>
                /\ cycle.effective_date >= YmdToOrd(cycle.year, 1, 1)
                /\ cycle.effective_date - 28 < YmdToOrd(cycle.year, 1, 1))

\* C9 witness: the second of two next calls in a row entered a new year
C9_Witness ==
    /\ Len(trail) >= 3
    /\ trail[Len(trail) - 1].op = "next"
    /\ op = "next"
    /\ pc = "returned"
    /\ cycle.year = arg.year + 1
    /\ cycle.ordinal = 1

\* C10: the year of every cycle from_date returns is the calendar year of its
\* effective_date: effective_date is never before the first cycle start of
\* its calendar year, so no cycle is given to the previous year
C10_YearIsYearOfEffectiveDate ==
    FromDateReturned =>
        /\ cycle.year = YearOf(cycle.effective_date)
        /\ ~(cycle.effective_date < first_cycle_start(YearOf(cycle.effective_date)))

\* C10 witness: from_date returned on a January 1 that starts a cycle
C10_Witness ==
    /\ op = "from_date"
    /\ pc = "returned"
    /\ query_date = YmdToOrd(cycle.year, 1, 1)
    /\ cycle.effective_date = query_date

====
